---------------------------- MODULE Spec2Model ----------------------------
(***************************************************************************)
(* A model of facebook_sdk: FacebookRequest and FacebookBatchRequest       *)
(* (request.py) and the construction of the Facebook facade (facebook.py). *)
(*                                                                         *)
(* Python values are tagged records.  A str is a record with t = "str"     *)
(* and one of the fields s (literal text), chars (text kept as a sequence  *)
(* of characters, where the code inspects a prefix), json (the text        *)
(* json.dumps produced for that array) or urlencoded (the text urlencode   *)
(* produced for those key/value pairs).  A dict is the sequence of its     *)
(* <<key, value>> pairs in iteration order.  Objects (requests) are        *)
(* identities 0..2 whose attributes live in the state variables: an        *)
(* assignment to request.access_token is seen through every reference.     *)
(***************************************************************************)
EXTENDS Integers, Sequences, FiniteSets, TLC

VARIABLES
    access_token,   \* object -> self.access_token
    method,         \* object -> self.method
    endpoint,       \* object -> self.endpoint
    graph_version,  \* object -> self.graph_version
    headers,        \* object -> self.headers
    _params,        \* object -> self._params
    requests,       \* the batch's self.requests: entries {'name', 'request'}
    environ,        \* os.environ, the two variables the facade reads
    facebook,       \* the Facebook object the last construction produced
    call,           \* the last call made: its operation and arguments
    result          \* how the last call ended: "ok" or the exception raised

vars == <<access_token, method, endpoint, graph_version, headers, _params,
          requests, environ, facebook, call, result>>

requestVars == <<access_token, method, endpoint, graph_version, headers,
                 _params, requests>>
facadeVars == <<environ, facebook>>

-----------------------------------------------------------------------------
(* Bounds of the model. *)

\* add is called only while the batch holds fewer entries than this
MaxEntries == 2
\* the longest list passed to one add call
MaxListLen == 3
\* prepare_batch_request is called only while the stored batch text nests
\* fewer levels of batch text than this (a batch that holds itself nests
\* one more level with each call)
MaxNesting == 2
\* in SpecCount, add is called only while the batch holds fewer entries
MaxCount == 52

-----------------------------------------------------------------------------
(* Python values. *)

PyNone == [t |-> "None"]
PyStr(s) == [t |-> "str", s |-> s]
PyChars(c) == [t |-> "str", chars |-> c]
PyInt(i) == [t |-> "int", i |-> i]
PyBool(b) == [t |-> "bool", b |-> b]
PyList(items) == [t |-> "list", items |-> items]
PyDict(items) == [t |-> "dict", items |-> items]
\* a reference to the FacebookRequest (or FacebookBatchRequest) object id
PyRequest(id) == [t |-> "FacebookRequest", id |-> id]
\* the str json.dumps returns for the array arr
JsonText(arr) == [t |-> "str", json |-> arr]
\* the str urlencode returns for the pairs
UrlEncodedText(pairs) == [t |-> "str", urlencoded |-> pairs]

\* bool(v): None, "", 0, False, [] and {} are false
Truthy(v) ==
    CASE v.t = "None" -> FALSE
      [] v.t = "str" ->
            IF "s" \in DOMAIN v THEN v.s # ""
            ELSE IF "chars" \in DOMAIN v THEN v.chars # <<>>
            ELSE IF "urlencoded" \in DOMAIN v THEN v.urlencoded # <<>>
            ELSE TRUE
      [] v.t = "int" -> v.i # 0
      [] v.t = "bool" -> v.b
      [] v.t \in {"list", "dict"} -> v.items # <<>>
      [] OTHER -> TRUE

Digits == <<"0", "1", "2", "3", "4", "5", "6", "7", "8", "9">>

RECURSIVE IntToStr(_)
IntToStr(i) ==
    IF i < 10 THEN Digits[i + 1]
    ELSE IntToStr(i \div 10) \o Digits[(i % 10) + 1]

\* str(v)
Str(v) ==
    CASE v.t = "str" -> v
      [] v.t = "None" -> PyStr("None")
      [] v.t = "int" -> PyStr(IntToStr(v.i))
      [] v.t = "bool" -> PyStr(IF v.b THEN "True" ELSE "False")

\* dict operations, on the pairs in iteration order
HasKey(d, k) == \E i \in 1..Len(d.items) : d.items[i][1] = k
DictGet(d, k) ==
    IF HasKey(d, k)
    THEN d.items[CHOOSE i \in 1..Len(d.items) : d.items[i][1] = k][2]
    ELSE PyNone
DictSet(d, k, v) ==
    IF HasKey(d, k)
    THEN PyDict([i \in 1..Len(d.items) |->
                    IF d.items[i][1] = k THEN <<k, v>> ELSE d.items[i]])
    ELSE PyDict(Append(d.items, <<k, v>>))
RECURSIVE DictUpdate(_, _)
DictUpdate(d, other) ==
    IF other.items = <<>> THEN d
    ELSE DictUpdate(DictSet(d, other.items[1][1], other.items[1][2]),
                    PyDict(Tail(other.items)))

-----------------------------------------------------------------------------
(* Constants of facebook_sdk.constants and facebook_sdk.utils. *)

METHOD_GET == PyStr("GET")
METHOD_POST == PyStr("POST")
METHOD_DELETE == PyStr("DELETE")
DEFAULT_GRAPH_VERSION == PyChars(<<"v", "2", ".", "5">>)

force_slash_prefix(s) ==
    IF s.chars # <<>> /\ s.chars[1] = "/" THEN s
    ELSE PyChars(<<"/">> \o s.chars)

MAX_REQUEST_BY_BATCH == 50

-----------------------------------------------------------------------------
(* FacebookRequest: the properties of the object o in the current state. *)

self == 0
Requests == {1, 2}
Objects == {self} \cup Requests

\* params copying the stored params whatever the method
params_of_any_method(o) ==
    IF Truthy(access_token[o])
    THEN DictUpdate(_params[o],
             PyDict(<< <<"access_token", Str(access_token[o])>> >>))
    ELSE _params[o]

params(o) ==
    LET base == IF method[o] # METHOD_POST THEN _params[o] ELSE PyDict(<<>>)
    IN  IF Truthy(access_token[o])
        THEN DictUpdate(base,
                 PyDict(<< <<"access_token", Str(access_token[o])>> >>))
        ELSE base

post_params(o) ==
    IF method[o] = METHOD_POST THEN _params[o] ELSE PyNone

url(o) ==
    PyChars(force_slash_prefix(graph_version[o]).chars
                \o force_slash_prefix(endpoint[o]).chars)

urlencode(d) ==
    UrlEncodedText([i \in 1..Len(d.items) |->
                       <<d.items[i][1], Str(d.items[i][2])>>])

url_encode_body(o) ==
    LET p == post_params(o)
    IN  IF Truthy(p) THEN urlencode(p) ELSE PyNone

-----------------------------------------------------------------------------
(* FacebookBatchRequest.  add works on the pair st = [requests,            *)
(* access_token, raised]: the entries, every object's token, and whether   *)
(* FacebookSDKException has been raised (and then nothing more is done).   *)

\* _add_access_token without its check of the batch's token
_add_access_token_unchecked(st, r) ==
    IF ~Truthy(st.access_token[r])
    THEN [st EXCEPT !.access_token[r] = st.access_token[self]]
    ELSE st

\* _add_access_token refusing every request that has no token of its own
_add_access_token_strict(st, r) ==
    IF ~Truthy(st.access_token[r]) THEN [st EXCEPT !.raised = TRUE] ELSE st

\* _add_access_token(request), for the FacebookRequest object r
_add_access_token(st, r) ==
    IF ~Truthy(st.access_token[r])
    THEN IF ~Truthy(st.access_token[self])
         THEN [st EXCEPT !.raised = TRUE]
         ELSE [st EXCEPT !.access_token[r] = st.access_token[self]]
    ELSE st

\* enumerate counting from one
enumerate_from_one(items) == [i \in 1..Len(items) |-> <<PyInt(i), items[i]>>]

\* the (index, element) pairs enumerate(list) yields
enumerate(items) == [i \in 1..Len(items) |-> <<PyInt(i - 1), items[i]>>]

\* the entry add appends for the request object r under the name argument
entry(name, r) == [name |-> Str(name), request |-> r]

RECURSIVE add(_, _, _), addEach(_, _)
\* add(request, name)
add(st, request, name) ==
    IF request.t = "list" THEN addEach(st, enumerate(request.items))
    ELSE IF request.t = "dict" THEN addEach(st, request.items)
    ELSE IF request.t # "FacebookRequest" THEN [st EXCEPT !.raised = TRUE]
    ELSE LET st2 == _add_access_token(st, request.id)
         IN  IF st2.raised THEN st2
             ELSE [st2 EXCEPT !.requests = Append(@, entry(name, request.id))]

\* the loops of add: self.add(req, key) for each pair, until one raises
addEach(st, pairs) ==
    IF pairs = <<>> \/ st.raised THEN st
    ELSE addEach(add(st, pairs[1][2], pairs[1][1]), Tail(pairs))

\* request_entity_to_batch_array without the comparison of the tokens
request_entity_to_batch_array_with_token(request, request_name) ==
    LET batch == PyDict(<< <<"headers", headers[request]>>,
                           <<"method", method[request]>>,
                           <<"relative_url", url(request)>> >>)
        encoded_body == url_encode_body(request)
        batch1 == IF Truthy(encoded_body)
                  THEN DictSet(batch, "body", encoded_body) ELSE batch
        batch2 == IF request_name # PyNone
                  THEN DictSet(batch1, "name", request_name) ELSE batch1
    IN  DictSet(batch2, "access_token", Str(access_token[request]))

\* request_entity_to_batch_array(request, request_name)
request_entity_to_batch_array(request, request_name) ==
    LET batch == PyDict(<< <<"headers", headers[request]>>,
                           <<"method", method[request]>>,
                           <<"relative_url", url(request)>> >>)
        encoded_body == url_encode_body(request)
        batch1 == IF Truthy(encoded_body)
                  THEN DictSet(batch, "body", encoded_body) ELSE batch
        batch2 == IF request_name # PyNone
                  THEN DictSet(batch1, "name", request_name) ELSE batch1
    IN  IF access_token[request] # access_token[self]
        THEN DictSet(batch2, "access_token", Str(access_token[request]))
        ELSE batch2

\* requests_to_json serializing the entries last to first
requests_to_json_reversed ==
    JsonText([i \in 1..Len(requests) |->
                 request_entity_to_batch_array(
                     requests[Len(requests) + 1 - i].request,
                     requests[Len(requests) + 1 - i].name)])

\* requests_to_json()
requests_to_json ==
    JsonText([i \in 1..Len(requests) |->
                 request_entity_to_batch_array(requests[i].request,
                                               requests[i].name)])

\* prepare_batch_request keeping a batch text it stored before
prepare_batch_request_once ==
    IF HasKey(_params[self], "batch") THEN _params[self]
    ELSE DictUpdate(_params[self],
                    PyDict(<< <<"batch", requests_to_json>>,
                              <<"include_headers", PyBool(TRUE)>> >>))

\* the params prepare_batch_request merges into self._params
prepare_batch_request ==
    DictUpdate(_params[self],
               PyDict(<< <<"batch", requests_to_json>>,
                         <<"include_headers", PyBool(TRUE)>> >>))

\* validate_batch_request_count refusing the count at the limit too
validate_batch_request_count_inclusive ==
    LET requests_count == Len(requests)
    IN  requests_count = 0 \/ requests_count >= MAX_REQUEST_BY_BATCH

\* validate_batch_request_count(): whether it raises
validate_batch_request_count ==
    LET requests_count == Len(requests)
    IN  requests_count = 0 \/ requests_count > MAX_REQUEST_BY_BATCH

\* how many levels of batch text the text v holds (0 for any other str)
RECURSIVE Nesting(_)
NestingOfDict(d) ==
    IF d.items = <<>> THEN 0
    ELSE LET n == {Nesting(d.items[i][2]) : i \in 1..Len(d.items)}
         IN  CHOOSE m \in n : \A k \in n : k <= m
Nesting(v) ==
    IF v.t = "dict" THEN NestingOfDict(v)
    ELSE IF v.t # "str" THEN 0
    ELSE IF "json" \in DOMAIN v
         THEN 1 + NestingOfDict(PyDict([i \in 1..Len(v.json) |-> <<i, v.json[i]>>]))
    ELSE IF "urlencoded" \in DOMAIN v THEN NestingOfDict(PyDict(v.urlencoded))
    ELSE 0

-----------------------------------------------------------------------------
(* The calls on the batch. *)

Raised == "FacebookSDKException"

Add(request, name) ==
    LET st == add([requests |-> requests, access_token |-> access_token,
                   raised |-> FALSE], request, name)
    IN  /\ requests' = st.requests
        /\ access_token' = st.access_token
        /\ result' = IF st.raised THEN Raised ELSE "ok"
        /\ call' = [op |-> "add", request |-> request, name |-> name]
        /\ UNCHANGED <<method, endpoint, graph_version, headers, _params>>
        /\ UNCHANGED facadeVars

PrepareBatchRequest ==
    /\ Nesting(_params[self]) < MaxNesting
    /\ _params' = [_params EXCEPT ![self] = prepare_batch_request]
    /\ result' = "ok"
    /\ call' = [op |-> "prepare_batch_request"]
    /\ UNCHANGED <<access_token, method, endpoint, graph_version, headers,
                   requests>>
    /\ UNCHANGED facadeVars

ValidateBatchRequestCount ==
    /\ result' = IF validate_batch_request_count THEN Raised ELSE "ok"
    /\ call' = [op |-> "validate_batch_request_count"]
    /\ UNCHANGED requestVars
    /\ UNCHANGED facadeVars

-----------------------------------------------------------------------------
(* Construction: FacebookRequest(...) for objects 1 and 2, and              *)
(* FacebookBatchRequest(access_token=...) for object 0.                     *)

NoCall == [op |-> "__init__"]
NotConstructed == [t |-> "None"]
Unset == [t |-> "unset"]

\* the state after constructing the batch with token t0 and requests 1 and 2
\* with the tokens, methods and params given
Constructed(t0, t1, t2, m1, m2, p1, p2) ==
    /\ access_token = (self :> t0) @@ (1 :> t1) @@ (2 :> t2)
    /\ method = (self :> METHOD_POST) @@ (1 :> m1) @@ (2 :> m2)
    /\ endpoint = (self :> PyChars(<<>>)) @@ (1 :> PyChars(<<"m", "e">>))
                    @@ (2 :> PyChars(<<"/", "p">>))
    /\ graph_version = [o \in Objects |-> DEFAULT_GRAPH_VERSION]
    /\ headers = [o \in Objects |-> PyDict(<<>>)]
    /\ _params = (self :> PyDict(<<>>)) @@ (1 :> p1) @@ (2 :> p2)
    /\ requests = <<>>
    /\ call = NoCall
    /\ result = "ok"

NoFacade ==
    /\ environ = [FACEBOOK_APP_ID |-> Unset, FACEBOOK_APP_SECRET |-> Unset]
    /\ facebook = NotConstructed

BatchTokens == {PyNone, PyStr(""), PyStr("A")}
Tokens1 == {PyNone, PyStr(""), PyStr("A")}
Tokens2 == {PyNone, PyStr("B")}
ParamsA == PyDict(<< <<"a", PyStr("1")>> >>)

Init ==
    /\ \E t0 \in BatchTokens, t1 \in Tokens1, t2 \in Tokens2 :
          Constructed(t0, t1, t2, METHOD_GET, METHOD_POST, PyDict(<<>>), ParamsA)
    /\ NoFacade

\* the sequences over S of length 0..n
RECURSIVE SeqsUpTo(_, _)
SeqsUpTo(S, n) ==
    IF n = 0 THEN {<<>>}
    ELSE LET shorter == SeqsUpTo(S, n - 1)
         IN  shorter \cup {Append(s, x) : s \in {q \in shorter : Len(q) = n - 1}, x \in S}

NotARequest == PyStr("oops")
R1 == PyRequest(1)
R2 == PyRequest(2)

Singles == {PyRequest(self), R1, R2, NotARequest}
Names == {PyNone, PyStr("n")}
\* R1, R2, R1, ... of length n
Alternating(n) == [i \in 1..n |-> IF i % 2 = 1 THEN R1 ELSE R2]
Lists ==
    {PyList(s) : s \in SeqsUpTo({R1, R2}, 2)}
      \cup {PyList(Alternating(n)) : n \in 3..MaxListLen}
      \cup {PyList(<<R1, NotARequest, R2>>), PyList(<<PyList(<<R2, R1>>), R1>>)}
Dicts ==
    {PyDict(<<>>),
     PyDict(<< <<PyStr("get_user"), R1>> >>),
     PyDict(<< <<PyStr("get_user"), R1>>, <<PyInt(7), R2>> >>),
     PyDict(<< <<PyInt(7), R2>>, <<PyStr("get_user"), R1>> >>),
     PyDict(<< <<PyStr("get_user"), NotARequest>> >>)}
\* the lists and dicts that are also passed with a name argument
Named == {PyList(<<R1, R2, R1>>), PyDict(<< <<PyStr("get_user"), R1>> >>)}
NamesFor(request) == IF request \in Named THEN Names ELSE {PyNone}

AddRequest ==
    /\ Len(requests) < MaxEntries
    /\ \E request \in Singles, name \in Names : Add(request, name)

AddList ==
    /\ Len(requests) < MaxEntries
    /\ \E request \in Lists : \E name \in NamesFor(request) : Add(request, name)

AddDict ==
    /\ Len(requests) < MaxEntries
    /\ \E request \in Dicts : \E name \in NamesFor(request) : Add(request, name)

Next ==
    \/ AddRequest
    \/ AddList
    \/ AddDict
    \/ PrepareBatchRequest
    \/ ValidateBatchRequestCount

Spec == Init /\ [][Next]_vars

-----------------------------------------------------------------------------
(* The batch at its size limit: one request added again and again. *)

InitCount ==
    /\ \E t0 \in {PyNone, PyStr("A")}, t1 \in Tokens1 :
          Constructed(t0, t1, PyNone, METHOD_GET, METHOD_POST, PyDict(<<>>), ParamsA)
    /\ NoFacade

AddOne ==
    /\ Len(requests) < MaxCount
    /\ \E request \in {R1, NotARequest} : Add(request, PyNone)

NextCount ==
    \/ AddOne
    \/ PrepareBatchRequest
    \/ ValidateBatchRequestCount

SpecCount == InitCount /\ [][NextCount]_vars

-----------------------------------------------------------------------------
(* Requests of every method, with and without params and token. *)

Methods == {METHOD_GET, METHOD_POST, METHOD_DELETE}
ParamsToken == PyDict(<< <<"access_token", PyStr("X")>>, <<"a", PyStr("1")>> >>)

InitRequest ==
    /\ \E t0 \in BatchTokens, t1 \in Tokens1, t2 \in Tokens2, m1 \in Methods,
          p1 \in {PyDict(<<>>), ParamsA, ParamsToken} :
          Constructed(t0, t1, t2, m1, METHOD_POST, p1, ParamsA)
    /\ NoFacade

AddAny ==
    /\ Len(requests) < MaxEntries
    /\ \E request \in {PyRequest(self), R1, R2} : Add(request, PyNone)

NextRequest ==
    \/ AddAny
    \/ PrepareBatchRequest

SpecRequest == InitRequest /\ [][NextRequest]_vars

-----------------------------------------------------------------------------
(* The Facebook facade: its construction from keyword arguments. *)

APP_ID_ENV_NAME == "FACEBOOK_APP_ID"
APP_SECRET_ENV_NAME == "FACEBOOK_APP_SECRET"

\* a key that kwargs does not hold
Absent == [t |-> "absent"]
\* AccessToken(access_token=s)
AccessToken(s) == [t |-> "AccessToken", access_token |-> s]

\* os.getenv(name, default)
getenv(name, default) ==
    IF environ[name] = Unset THEN default ELSE environ[name]

\* kwargs.get(key, default)
kwargs_get(kwargs, key, default) ==
    IF kwargs[key] = Absent THEN default ELSE kwargs[key]

\* FacebookApp(app_id, app_secret)
FacebookApp(app_id, app_secret) == [id |-> app_id, secret |-> app_secret]

\* self.config of Facebook.__init__
config(kwargs) ==
    [app_id |-> getenv(APP_ID_ENV_NAME, kwargs_get(kwargs, "app_id", PyNone)),
     app_secret |-> getenv(APP_ID_ENV_NAME, kwargs_get(kwargs, "app_secret", PyNone)),
     default_graph_version |->
         kwargs_get(kwargs, "default_graph_version", DEFAULT_GRAPH_VERSION),
     default_access_token |-> kwargs_get(kwargs, "default_access_token", PyNone)]

\* set_default_access_token(access_token): the attribute it sets, or the
\* exception it raises
set_default_access_token(token) ==
    IF token.t = "str" THEN [raised |-> "", default_access_token |-> AccessToken(token)]
    ELSE IF token.t = "AccessToken" THEN [raised |-> "", default_access_token |-> token]
    ELSE [raised |-> "ValueError"]

\* Facebook.__init__: the exception raised ("" for none) and the attributes
\* of the object built
Facebook__init__(kwargs) ==
    LET cfg == config(kwargs)
        tok == IF Truthy(cfg.default_access_token)
               THEN set_default_access_token(cfg.default_access_token)
               ELSE [raised |-> "", default_access_token |-> PyNone]
    IN  IF ~Truthy(cfg.app_id) THEN [raised |-> Raised]
        ELSE IF ~Truthy(cfg.app_secret) THEN [raised |-> Raised]
        ELSE IF tok.raised # "" THEN [raised |-> tok.raised]
        ELSE [raised |-> "",
              object |-> [config |-> cfg,
                          default_graph_version |-> cfg.default_graph_version,
                          default_access_token |-> tok.default_access_token,
                          app |-> FacebookApp(cfg.app_id, cfg.app_secret)]]

NewFacebook(kwargs) ==
    LET fb == Facebook__init__(kwargs)
    IN  /\ facebook' = IF fb.raised = "" THEN fb.object ELSE NotConstructed
        /\ result' = IF fb.raised = "" THEN "ok" ELSE fb.raised
        /\ call' = [op |-> "Facebook", kwargs |-> kwargs]
        /\ UNCHANGED environ
        /\ UNCHANGED requestVars

EnvIds == {Unset, PyStr(""), PyStr("env-id")}
EnvSecrets == {Unset, PyStr(""), PyStr("env-secret")}
Kwargs ==
    [app_id : {Absent, PyStr(""), PyStr("my-id")},
     app_secret : {Absent, PyStr(""), PyStr("my-secret")},
     default_graph_version : {Absent, PyChars(<<"v", "9">>)},
     default_access_token : {Absent, PyStr("tok"), AccessToken(PyStr("tok")), PyInt(5)}]

InitFacade ==
    /\ Constructed(PyNone, PyNone, PyNone, METHOD_GET, METHOD_POST, PyDict(<<>>), ParamsA)
    /\ \E id \in EnvIds, secret \in EnvSecrets :
          environ = [FACEBOOK_APP_ID |-> id, FACEBOOK_APP_SECRET |-> secret]
    /\ facebook = NotConstructed

Construct == \E kwargs \in Kwargs : NewFacebook(kwargs)

NextFacade == Construct

SpecFacade == InitFacade /\ [][NextFacade]_vars

-----------------------------------------------------------------------------
(* What the claims speak of. *)

\* the entries the step appended
NewEntries == {i \in 1..Len(requests') : i > Len(requests)}
\* the last n entries of the batch
LastEntries(n) == SubSeq(requests, Len(requests) - n + 1, Len(requests))
\* the last call was add, of a ...
AddedRequest == call.op = "add" /\ call.request.t = "FacebookRequest"
AddedRequestList ==
    /\ call.op = "add" /\ call.request.t = "list"
    /\ \A i \in 1..Len(call.request.items) : call.request.items[i].t = "FacebookRequest"
AddedRequestDict ==
    /\ call.op = "add" /\ call.request.t = "dict"
    /\ \A i \in 1..Len(call.request.items) : call.request.items[i][2].t = "FacebookRequest"
\* the array requests_to_json serializes
Descriptors == requests_to_json.json
\* the relative url of each object, written out
UrlOf(o) ==
    CASE o = 0 -> PyChars(<<"/", "v", "2", ".", "5", "/">>)
      [] o = 1 -> PyChars(<<"/", "v", "2", ".", "5", "/", "m", "e">>)
      [] o = 2 -> PyChars(<<"/", "v", "2", ".", "5", "/", "p">>)

-----------------------------------------------------------------------------
\* C1: every entry of the batch holds a request whose access_token is
\* non-empty (neither None nor ""), whatever add calls succeeded or failed.
C1_EntriesHaveToken ==
    \A i \in 1..Len(requests) :
        /\ access_token[requests[i].request] # PyNone
        /\ access_token[requests[i].request] # PyStr("")

\* C1: a step never changes a token that is set, and a request appended
\* while it had no token has the batch's token afterwards.
C1_TokenResolved ==
    /\ \A o \in Objects :
          (access_token[o] # PyNone /\ access_token[o] # PyStr(""))
              => access_token'[o] = access_token[o]
    /\ \A i \in NewEntries :
          access_token[requests'[i].request] \in {PyNone, PyStr("")}
              => access_token'[requests'[i].request] = access_token[self]

\* C1: after any sequence of add calls every entry's request has a non-empty
\* access_token: the batch's token, assigned in place, if it was added
\* without one, and its own token, unchanged, otherwise.
C1_Theorem == []C1_EntriesHaveToken /\ [][C1_TokenResolved]_vars

\* C1 happens: an add succeeded after which one entry holds the batch's
\* token and another a token of its own.
C1_Witness ==
    /\ call.op = "add" /\ result = "ok"
    /\ \E i, j \in 1..Len(requests) :
          /\ access_token[requests[i].request] = access_token[self]
          /\ requests[i].request # self
          /\ access_token[requests[j].request] # access_token[self]

-----------------------------------------------------------------------------
\* C2: requests_to_json yields one descriptor per entry, the i-th describing
\* the i-th entry (its name and its request's url).
C2_OneDescriptorPerEntry ==
    /\ Len(Descriptors) = Len(requests)
    /\ \A i \in 1..Len(requests) :
          /\ DictGet(Descriptors[i], "relative_url") = UrlOf(requests[i].request)
          /\ DictGet(Descriptors[i], "name") = requests[i].name

\* C2: the entries a successful add of a list of Requests appended are the
\* list's Requests in list order.
C2_ListOrder ==
    (AddedRequestList /\ result = "ok") =>
        /\ Len(requests) >= Len(call.request.items)
        /\ LET new == LastEntries(Len(call.request.items))
           IN  \A i \in 1..Len(new) : new[i].request = call.request.items[i].id

\* C2: a step only appends: the entries it found are still there, in place.
C2_AppendOnly ==
    /\ Len(requests') >= Len(requests)
    /\ SubSeq(requests', 1, Len(requests)) = requests

\* C2: the array requests_to_json produces has one descriptor per entry in
\* insertion order; list elements appear in list order; add never reorders,
\* removes or replaces an earlier entry.
C2_Theorem ==
    /\ [](C2_OneDescriptorPerEntry /\ C2_ListOrder)
    /\ [][C2_AppendOnly]_vars

\* C2 happens: a list of two different Requests was added to a batch that
\* already held an entry.
C2_Witness ==
    /\ AddedRequestList /\ result = "ok"
    /\ call.request.items = <<R2, R1>>
    /\ Len(requests) = 3
    /\ Len(Descriptors) = 3

-----------------------------------------------------------------------------
\* the names of the last n entries
LastNames(n) == [i \in 1..n |-> LastEntries(n)[i].name]
\* the decimal text of the positions 0, 1, 2, ...
Positions == <<PyStr("0"), PyStr("1"), PyStr("2"), PyStr("3"), PyStr("4"), PyStr("5")>>
\* the text of the names and keys the calls pass
TextOf(v) ==
    CASE v = PyNone -> PyStr("None")
      [] v = PyStr("n") -> PyStr("n")
      [] v = PyStr("get_user") -> PyStr("get_user")
      [] v = PyInt(7) -> PyStr("7")

\* C3: a successful add records, for a list of Requests, the positions
\* "0", "1", "2", ... as names; for a dict of Requests, the text of its keys;
\* for a single Request, the text of the name argument ("None" for None).
\* The name argument passed with a list or dict plays no part.
C3_Theorem ==
    /\ (AddedRequestList /\ result = "ok") =>
          LET n == Len(call.request.items)
          IN  n <= Len(requests) /\ LastNames(n) = SubSeq(Positions, 1, n)
    /\ (AddedRequestDict /\ result = "ok") =>
          LET n == Len(call.request.items)
          IN  /\ n <= Len(requests)
              /\ LastNames(n) = [i \in 1..n |-> TextOf(call.request.items[i][1])]
    /\ (AddedRequest /\ result = "ok") =>
          /\ Len(requests) >= 1
          /\ LastNames(1) = <<TextOf(call.name)>>

\* C3 happens: a list of three Requests was added, a name passed along.
C3_Witness ==
    /\ AddedRequestList /\ result = "ok"
    /\ Len(call.request.items) = 3 /\ call.name = PyStr("n")
    /\ LastNames(3) = <<PyStr("0"), PyStr("1"), PyStr("2")>>

-----------------------------------------------------------------------------
\* C4: the descriptor of a Request added with add(request), no name given,
\* has no 'name' key.
C4_UnnamedHasNoName ==
    (AddedRequest /\ call.request.id # self /\ call.name = PyNone /\ result = "ok") =>
        ~HasKey(Descriptors[Len(requests)], "name")

-----------------------------------------------------------------------------
\* C5: a descriptor has an 'access_token' field exactly when its request's
\* token differs from the batch's, and the field is then that token.
C5_FieldIffTokensDiffer ==
    \A i \in 1..Len(requests) :
        LET d == Descriptors[i]
            r == requests[i].request
        IN  /\ HasKey(d, "access_token") <=> access_token[r] # access_token[self]
            /\ HasKey(d, "access_token") => DictGet(d, "access_token") = access_token[r]

\* C5: a request appended while it had no token has the batch's token
\* after the step (so its descriptor has no field); one appended with a
\* token other than the batch's still has that token, not the batch's (so
\* its descriptor has the field, with the token it came with).
C5_AsAdded ==
    \A i \in NewEntries :
        LET r == requests'[i].request
        IN  /\ access_token[r] \in {PyNone, PyStr("")}
                  => access_token'[r] = access_token'[self]
            /\ (access_token[r] \notin {PyNone, PyStr(""), access_token[self]})
                  => (access_token'[r] = access_token[r]
                        /\ access_token'[r] # access_token'[self])

\* C5: request_entity_to_batch_array includes access_token iff the child's
\* token differs from the batch's at serialization time; a child added
\* without a token is serialized without it, a child added with a different
\* token with its own.
C5_Theorem == []C5_FieldIffTokensDiffer /\ [][C5_AsAdded]_vars

\* C5 happens: the batch serializes one entry without the field and one
\* with it.
C5_Witness ==
    /\ call.op = "add" /\ result = "ok"
    /\ \E i, j \in 1..Len(requests) :
          /\ ~HasKey(Descriptors[i], "access_token")
          /\ requests[i].request # self
          /\ HasKey(Descriptors[j], "access_token")

-----------------------------------------------------------------------------
\* the batch is not one of its own entries
SelfFree == \A i \in 1..Len(requests) : requests[i].request # self
PreparedLast == call.op = "prepare_batch_request"

\* C8: when prepare_batch_request has returned, the stored params hold
\* include_headers = true and batch = requests_to_json() of the entries.
C8_StoredIsCurrent ==
    PreparedLast =>
        /\ DictGet(_params[self], "include_headers") = PyBool(TRUE)
        /\ DictGet(_params[self], "batch") = requests_to_json

\* C8 for a batch that does not hold itself: what is stored after the call
\* is the serialization of all current entries
C8_StoredIsCurrentSelfFree ==
    (PreparedLast /\ SelfFree) =>
        /\ result = "ok"
        /\ DictGet(_params[self], "include_headers") = PyBool(TRUE)
        /\ DictGet(_params[self], "batch") = requests_to_json
        /\ Len(DictGet(_params[self], "batch").json) = Len(requests)
        /\ Len(_params[self].items) = 2

\* C8 for a batch that does not hold itself: a call right after a call
\* changes nothing
C8_Again ==
    (PreparedLast /\ call'.op = "prepare_batch_request" /\ SelfFree)
        => _params' = _params

\* C8 (as amended): for a batch that is not among its own entries,
\* prepare_batch_request leaves include_headers = true and batch =
\* requests_to_json() of the current entries, also after further adds, and
\* calling it twice in a row leaves the stored params unchanged.
C8_Theorem == []C8_StoredIsCurrentSelfFree /\ [][C8_Again]_vars

\* C8 happens: prepare_batch_request returned on a batch of two entries or
\* more, none of them the batch
C8_Witness ==
    /\ PreparedLast /\ SelfFree
    /\ Len(requests) >= 2
    /\ Len(DictGet(_params[self], "batch").json) = Len(requests)

-----------------------------------------------------------------------------
\* C9: the step of an add of a single item (not a list, not a dict) raises
\* exactly when the item is no FacebookRequest, or is one without a token
\* while the batch has none either; and when it raises, the entries, the
\* stored params and every token are as before.
C9_SingleAdd ==
    (call'.op = "add" /\ call'.request.t \notin {"list", "dict"}) =>
        LET item == call'.request
            noToken(o) == access_token[o] \in {PyNone, PyStr("")}
            mustFail == \/ item.t # "FacebookRequest"
                        \/ (noToken(item.id) /\ noToken(self))
        IN  /\ (result' = "FacebookSDKException") <=> mustFail
            /\ (result' = "FacebookSDKException") =>
                  /\ requests' = requests
                  /\ _params' = _params
                  /\ access_token' = access_token

\* C9: a single-item add fails exactly on a wrong type or a token missing
\* on both request and batch, and a failed one changes nothing.
C9_Theorem == [][C9_SingleAdd]_vars

\* C9 happens: a Request without a token was refused by a batch without a
\* token that already held an entry.
C9_Witness ==
    /\ AddedRequest /\ result = "FacebookSDKException"
    /\ access_token[call.request.id] = PyNone
    /\ Len(requests) >= 1

-----------------------------------------------------------------------------
\* C6: validate_batch_request_count raises exactly on 0 entries and on more
\* than 50; prepare_batch_request never raises, and add of a Request raises
\* only for a missing token, whatever the count: the batch grows past 50.
C6_Theorem ==
    /\ call.op = "validate_batch_request_count" =>
          ((result = "FacebookSDKException")
              <=> (Len(requests) = 0 \/ Len(requests) > 50))
    /\ call.op = "prepare_batch_request" => result = "ok"
    /\ AddedRequest =>
          ((result = "FacebookSDKException")
              <=> (access_token[call.request.id] \in {PyNone, PyStr("")}
                     /\ access_token[self] \in {PyNone, PyStr("")}))

\* C6 happens: validation refused a batch of 51 entries.
C6_Witness ==
    /\ call.op = "validate_batch_request_count"
    /\ result = "FacebookSDKException"
    /\ Len(requests) = 51

-----------------------------------------------------------------------------
\* the dict d as a mapping, its order forgotten
AsMap(d) == [k \in {d.items[i][1] : i \in 1..Len(d.items)} |-> DictGet(d, k)]
TokenSet(o) == access_token[o] \notin {PyNone, PyStr("")}

\* C7: for every request, the batch included: with method POST, params is
\* {access_token: token} if a token is set and {} if not, and post_params
\* is the stored params; with GET or DELETE, params is the stored params
\* with access_token set to the token if one is set, and post_params and
\* url_encode_body are None.
C7_Theorem ==
    \A o \in Objects :
        IF method[o] = PyStr("POST")
        THEN /\ params(o) = IF TokenSet(o)
                            THEN PyDict(<< <<"access_token", access_token[o]>> >>)
                            ELSE PyDict(<<>>)
             /\ post_params(o) = _params[o]
        ELSE /\ method[o] \in {PyStr("GET"), PyStr("DELETE")}
             /\ post_params(o) = PyNone
             /\ url_encode_body(o) = PyNone
             /\ AsMap(params(o)) =
                  IF TokenSet(o)
                  THEN [k \in DOMAIN AsMap(_params[o]) \cup {"access_token"} |->
                           IF k = "access_token" THEN access_token[o]
                           ELSE DictGet(_params[o], k)]
                  ELSE AsMap(_params[o])

\* C7 happens: the batch, with a token, has been prepared, and it holds a
\* DELETE request with stored params and a token.
C7_Witness ==
    /\ PreparedLast
    /\ TokenSet(self) /\ HasKey(_params[self], "batch")
    /\ method[1] = METHOD_DELETE /\ TokenSet(1) /\ _params[1] = ParamsToken
    /\ Len(requests) >= 1

-----------------------------------------------------------------------------
\* C10: the secret of the App a construction yields is the app_secret
\* argument or FACEBOOK_APP_SECRET, and construction raises the SDK's
\* exception when neither gives a non-empty value.
C10_SecretFromItsOwnSources ==
    call.op = "Facebook" =>
        LET arg == call.kwargs.app_secret
            env == environ[APP_SECRET_ENV_NAME]
            given(v) == v \notin {Absent, Unset, PyNone, PyStr("")}
        IN  /\ result = "ok" =>
                  (given(facebook.app.secret) /\ facebook.app.secret \in {arg, env})
            /\ (~given(arg) /\ ~given(env)) => result = "FacebookSDKException"

=============================================================================
